---- MODULE Spec2Model ----
(***************************************************************************)
(* Model of the three scraper scripts of the repository:                   *)
(*   "text"     - scrape_questions.py (one search per company, fallback    *)
(*                table, numbered text file written at the end)            *)
(*   "json"     - scrape_system_design_questions.py (three sources per     *)
(*                company, fallback table, JSON file written at the end)   *)
(*   "enhanced" - enhanced_scraper.py (ten searches per company, no        *)
(*                fallback table, text file written company by company)    *)
(* Titles are real strings; lower(), upper(), strip(), the keyword test,   *)
(* the length test, list(set(..)) and the line formatting are computed.    *)
(***************************************************************************)
EXTENDS Integers, Sequences, FiniteSets, TLC

VARIABLES variant, hashseed, pc, ci, qi, response, all_raised, lastio,
          titles, all_questions, questions, all_content, results,
          file, file_state

vars == <<variant, hashseed, pc, ci, qi, response, all_raised, lastio,
          titles, all_questions, questions, all_content, results,
          file, file_state>>

-----------------------------------------------------------------------------
(* Bounds of the model *)

\* number of string-hash seeds (PYTHONHASHSEED values) the model explores
NumSeeds == 3

-----------------------------------------------------------------------------
(* Strings *)

LowerAlpha == "abcdefghijklmnopqrstuvwxyz"
UpperAlpha == "ABCDEFGHIJKLMNOPQRSTUVWXYZ"
OtherChars == " :-.0123456789="

CharAt(s, i) == SubSeq(s, i, i)

CharSet(s) == {CharAt(s, i) : i \in 1..Len(s)}

IndexIn(s, c) == CHOOSE i \in 1..Len(s) : CharAt(s, i) = c

\* the function f restricted to the non-empty set S, tabulated once
RECURSIVE TableOn(_, _)
TableOn(f, S) ==
    LET x == CHOOSE y \in S : TRUE
    IN IF S = {x} THEN x :> f[x] ELSE (x :> f[x]) @@ TableOn(f, S \ {x})

Table(f) == TableOn(f, DOMAIN f)

\* str.lower() on one character
LowerTable ==
    Table([c \in CharSet(UpperAlpha) |-> CharAt(LowerAlpha, IndexIn(UpperAlpha, c))])

\* str.upper() on one character
UpperTable ==
    Table([c \in CharSet(LowerAlpha) |-> CharAt(UpperAlpha, IndexIn(LowerAlpha, c))])

\* str.lower(): character by character (the string is halved to keep the
\* evaluation shallow)
RECURSIVE Lower(_)
Lower(s) ==
    IF s = "" THEN ""
    ELSE IF Len(s) = 1 THEN (IF s \in DOMAIN LowerTable THEN LowerTable[s] ELSE s)
    ELSE LET h == Len(s) \div 2
         IN Lower(SubSeq(s, 1, h)) \o Lower(SubSeq(s, h + 1, Len(s)))

\* str.upper()
RECURSIVE Upper(_)
Upper(s) ==
    IF s = "" THEN ""
    ELSE IF Len(s) = 1 THEN (IF s \in DOMAIN UpperTable THEN UpperTable[s] ELSE s)
    ELSE LET h == Len(s) \div 2
         IN Upper(SubSeq(s, 1, h)) \o Upper(SubSeq(s, h + 1, Len(s)))

\* the Python test  kw in s
Contains(s, kw) ==
    \E i \in 1..(Len(s) - Len(kw) + 1) : SubSeq(s, i, i + Len(kw) - 1) = kw

RECURSIVE LStrip(_)
LStrip(s) == IF s # "" /\ Head(s) = " " THEN LStrip(Tail(s)) ELSE s

RECURSIVE RStrip(_)
RStrip(s) ==
    IF s # "" /\ CharAt(s, Len(s)) = " " THEN RStrip(SubSeq(s, 1, Len(s) - 1)) ELSE s

\* get_text(strip=True)
Strip(s) == LStrip(RStrip(s))

\* the Python expression  c * n
RECURSIVE Rep(_, _)
Rep(c, n) ==
    IF n <= 0 THEN ""
    ELSE IF n = 1 THEN c
    ELSE Rep(c, n \div 2) \o Rep(c, n - (n \div 2))

\* '\n'.join(lines)
RECURSIVE JoinLines(_)
JoinLines(lines) ==
    IF lines = <<>> THEN ""
    ELSE IF Len(lines) = 1 THEN lines[1]
    ELSE lines[1] \o "\n" \o JoinLines(Tail(lines))

\* the lines of a text, as a reader of the file sees them: cut at every "\n"
RECURSIVE SplitFrom(_, _, _)
SplitFrom(s, start, breaks) ==
    IF breaks = {} THEN <<SubSeq(s, start, Len(s))>>
    ELSE LET b == CHOOSE x \in breaks : \A y \in breaks : x <= y
         IN <<SubSeq(s, start, b - 1)>> \o SplitFrom(s, b + 1, breaks \ {b})

SplitLines(s) == SplitFrom(s, 1, {i \in 1..Len(s) : CharAt(s, i) = "\n"})

Range(seq) == {seq[i] : i \in 1..Len(seq)}

NoDup(seq) == \A i, j \in 1..Len(seq) : seq[i] = seq[j] => i = j

-----------------------------------------------------------------------------
(* Program constants *)

\* main(): companies = ['Atlassian', 'PayPal', 'Mastercard']
companies == <<"Atlassian", "PayPal", "Mastercard">>

NumCompanies == Len(companies)

\* scrape_questions.py: known_questions
known_questions ==
    [c \in Range(companies) |->
        CASE c = "Atlassian" ->
               << "Design a collaborative document editing system like Confluence",
                  "Design a project management tool like Jira",
                  "Design a real-time chat system for teams",
                  "Design a file sharing platform",
                  "Design a notification system" >>
          [] c = "PayPal" ->
               << "Design a payment processing system",
                  "Design a fraud detection system",
                  "Design a digital wallet",
                  "Design a money transfer system",
                  "Design a merchant payment gateway" >>
          [] c = "Mastercard" ->
               << "Design a credit card transaction system",
                  "Design a real-time fraud detection system",
                  "Design a global payment network",
                  "Design a loyalty rewards system",
                  "Design a merchant acquiring platform" >>]

\* scrape_system_design_questions.py: extract_common_questions()
common_questions ==
    [c \in Range(companies) |->
        CASE c = "Atlassian" ->
               << "Design a collaborative document editing system like Confluence",
                  "Design a project management system like Jira",
                  "Design a real-time chat system for teams",
                  "Design a file sharing and collaboration platform",
                  "Design a notification system for team updates" >>
          [] c = "PayPal" ->
               << "Design a payment processing system",
                  "Design a fraud detection system",
                  "Design a wallet system for digital payments",
                  "Design a money transfer system",
                  "Design a merchant payment gateway" >>
          [] c = "Mastercard" ->
               << "Design a credit card transaction processing system",
                  "Design a real-time fraud detection system",
                  "Design a global payment network",
                  "Design a loyalty points system",
                  "Design a merchant acquiring system" >>]

\* keyword lists of the call sites
KeywordsText     == {"design", "system", "interview"}
KeywordsEnhanced == {"design", "system", "interview", "experience"}
KeywordsLeetcode == {"system design", "design", "architecture"}
KeywordsReddit   == {"system design"}
KeywordsGithub   == {"system design"}

\* result caps of the call sites:  results[:5], results[:3], topics[:5], items[:3]
CapText     == 5
CapEnhanced == 3
CapLeetcode == 5
CapReddit   == 3
CapGithub   == 3

\* len(search_queries) in search_comprehensive
NumQueries == 10

\* cleaned_questions:  len(q) > 10 and len(q) < 200
MinLen == 10
MaxLen == 200

\* the banner rule  '=' * 60
BannerWidth == 60

-----------------------------------------------------------------------------
(* What the remote sites may answer *)

PadTo(s, n) == s \o Rep("x", n - Len(s))

\* anchors of class result__a of a DuckDuckGo page (raw text, before strip)
HtmlBodies ==
    { <<>>,
      << "Atlassian System Design Interview", "Unrelated Topic" >>,
      << "  Design  ", "Design a payment processing system",
         "Staff Engineer Experience", "Design a payment processing system",
         "Unrelated Topic", "System Design Primer" >> }

\* div.topic-title elements of a LeetCode page: each is the list of the
\* texts of the anchors it holds (find('a') takes the first, None if empty)
TopicBodies ==
    { <<>>,
      << <<"Design a payment processing system">>,
         <<"Atlassian System Design Interview", "second anchor">>,
         <<"Unrelated Topic">> >>,
      << <<"Design API">>, <<"Design APIs">>, <<>>,
         <<PadTo("System Design ", MaxLen - 1)>>,
         <<PadTo("System Design ", MaxLen)>>,
         <<"Architecture of Jira">> >> }

\* 'items' of a GitHub repository search (description "" stands for a
\* missing or empty description)
RepoBodies ==
    { <<>>,
      << [name |-> "primer", description |-> "Learn System Design"],
         [name |-> "awesome", description |-> ""],
         [name |-> "prep", description |-> "Interview prep"],
         [name |-> "late", description |-> "system design notes"] >> }

StatusCodes == {200, 404}

NoResponse == [raised |-> FALSE, status_code |-> 0]
Raised     == [raised |-> TRUE, status_code |-> 0]
Answer(st) == [raised |-> FALSE, status_code |-> st]

-----------------------------------------------------------------------------
(* Pure parts of the scripts *)

\* seq[:n]
Take(seq, n) == SubSeq(seq, 1, IF Len(seq) < n THEN Len(seq) ELSE n)

HasKeyword_any(title, keywords) == TRUE

\* any(word in title.lower() for word in keywords)
HasKeyword(title, keywords) == \E kw \in keywords : Contains(Lower(title), kw)

\* the for loop over anchors: strip, keyword test, append
RECURSIVE HarvestAnchors(_, _)
HarvestAnchors(anchors, keywords) ==
    IF anchors = <<>> THEN <<>>
    ELSE LET title == Strip(Head(anchors))
         IN (IF HasKeyword(title, keywords) THEN <<title>> ELSE <<>>)
            \o HarvestAnchors(Tail(anchors), keywords)

\* the for loop of search_leetcode_discuss
RECURSIVE HarvestTopics(_)
HarvestTopics(topics) ==
    IF topics = <<>> THEN <<>>
    ELSE LET topic == Head(topics)
         IN (IF topic # <<>> /\ HasKeyword(Strip(Head(topic)), KeywordsLeetcode)
             THEN <<Strip(Head(topic))>> ELSE <<>>)
            \o HarvestTopics(Tail(topics))

\* the for loop of search_github_repos
RECURSIVE HarvestRepos(_)
HarvestRepos(items) ==
    IF items = <<>> THEN <<>>
    ELSE LET repo == Head(items)
         IN (IF repo.description # "" /\ HasKeyword(repo.description, KeywordsGithub)
             THEN <<repo.name \o ": " \o repo.description>> ELSE <<>>)
            \o HarvestRepos(Tail(items))

\* what each call site keeps of each possible page (lines 33-38 of
\* scrape_questions.py, 45-50 of enhanced_scraper.py, 48-54, 74-78 and 96-100
\* of scrape_system_design_questions.py)
TextHarvest ==
    Table([body \in HtmlBodies |-> HarvestAnchors(Take(body, CapText), KeywordsText)])

EnhancedHarvest ==
    Table([body \in HtmlBodies |->
             HarvestAnchors(Take(body, CapEnhanced), KeywordsEnhanced)])

LeetcodeHarvest ==
    Table([body \in TopicBodies |-> HarvestTopics(Take(body, CapLeetcode))])

RedditHarvest ==
    Table([body \in HtmlBodies |-> HarvestAnchors(Take(body, CapReddit), KeywordsReddit)])

GithubHarvest == Table([body \in RepoBodies |-> HarvestRepos(Take(body, CapGithub))])

\* hash(s) under the process's hash seed
AllChars == LowerAlpha \o UpperAlpha \o OtherChars

CodeTable == Table([c \in CharSet(AllChars) |-> IndexIn(AllChars, c)])

Code(c) == IF c \in DOMAIN CodeTable THEN CodeTable[c] ELSE 0

\* hash(s) under the process's hash seed: the seed decides which characters
\* of the string weigh in
StrHash(s, seed) ==
    IF s = "" THEN seed
    ELSE (Len(s) * 7
          + Code(CharAt(s, 1 + (seed % Len(s)))) * 13
          + Code(CharAt(s, Len(s) - (seed % Len(s)))) * 31
          + seed) % 1009

\* a is before b in the alphabet (breaks the tie of two equal hashes)
LexLess(a, b) ==
    \E i \in 1..Len(b) :
        /\ i - 1 <= Len(a)
        /\ SubSeq(a, 1, i - 1) = SubSeq(b, 1, i - 1)
        /\ (i > Len(a) \/ Code(CharAt(a, i)) < Code(CharAt(b, i)))

\* a is met before b when a set holding both is iterated
Before(a, b, seed) ==
    \/ StrHash(a, seed) < StrHash(b, seed)
    \/ (StrHash(a, seed) = StrHash(b, seed) /\ LexLess(a, b))

\* iteration order of a set of strings: decided by the hashes
Order(S, seed) ==
    [i \in 1..Cardinality(S) |->
        CHOOSE x \in S : Cardinality({y \in S : Before(y, x, seed)}) = i - 1]

ListSet_nodedup(seq, seed) == seq

\* list(set(seq))
ListSet(seq, seed) == Order(Range(seq), seed)

WithKnown_forgotten(qs, table, company) == qs

\* if company in table: qs.extend(table[company])
WithKnown(qs, table, company) ==
    IF company \in DOMAIN table THEN qs \o table[company] ELSE qs

Cleaned_inclusive(qs) ==
    SelectSeq(qs, LAMBDA q : Len(q) >= MinLen /\ Len(q) <= MaxLen)

\* [q for q in unique_questions if len(q) > 10 and len(q) < 200]
Cleaned(qs) == SelectSeq(qs, LAMBDA q : Len(q) > MinLen /\ Len(q) < MaxLen)

Numbered_fromzero(qs) == [i \in 1..Len(qs) |-> ToString(i - 1) \o ". " \o qs[i]]

\* for i, question in enumerate(questions, 1): f"{i}. {question}"
Numbered(qs) == [i \in 1..Len(qs) |-> ToString(i) \o ". " \o qs[i]]

\* the three banner lines of scrape_questions.py main()
BannerText(company) ==
    << "\n" \o Rep("=", BannerWidth),
       Upper(company) \o " SYSTEM DESIGN QUESTIONS",
       Rep("=", BannerWidth) >>

\* the three banner writes of enhanced_scraper.py main()
BannerEnhanced(company) ==
    "\n" \o Rep("=", BannerWidth) \o "\n"
    \o Upper(company) \o " - ADDITIONAL QUESTIONS FOUND\n"
    \o Rep("=", BannerWidth) \o "\n"

RECURSIVE Concat(_)
Concat(lines) == IF lines = <<>> THEN "" ELSE Head(lines) \o Concat(Tail(lines))

\* for company in companies: is there a next iteration after index i
LoopDone_early(i) == i >= NumCompanies - 1

LoopDone(i) == i >= NumCompanies

EmptyMap == [c \in {} |-> <<>>]

\* json.dump(results, f, indent=2, ensure_ascii=False); keys in insertion
\* order, which is the order of the companies list (the titles of the model
\* hold no character that JSON escapes)
RECURSIVE JsonItems(_)
JsonItems(qs) ==
    IF qs = <<>> THEN ""
    ELSE "    \"" \o Head(qs) \o "\""
         \o (IF Len(qs) > 1 THEN ",\n" ELSE "\n") \o JsonItems(Tail(qs))

JsonArray(qs) == IF qs = <<>> THEN "[]" ELSE "[\n" \o JsonItems(qs) \o "  ]"

RECURSIVE JsonMembers(_, _)
JsonMembers(keys, map) ==
    IF keys = <<>> THEN ""
    ELSE "  \"" \o Head(keys) \o "\": " \o JsonArray(map[Head(keys)])
         \o (IF Len(keys) > 1 THEN ",\n" ELSE "\n") \o JsonMembers(Tail(keys), map)

JsonDump(map) ==
    LET keys == SelectSeq(companies, LAMBDA c : c \in DOMAIN map)
    IN IF keys = <<>> THEN "{}" ELSE "{\n" \o JsonMembers(keys, map) \o "}"

-----------------------------------------------------------------------------
(* State *)

Variants == {"text", "json", "enhanced"}

StartPc(v) == CASE v = "text" -> "t_fetch"
                [] v = "json" -> "j_sleep0"
                [] v = "enhanced" -> "e_open"

Init ==
    /\ variant \in Variants
    /\ hashseed \in 1..NumSeeds
    /\ pc = StartPc(variant)
    /\ ci = 1
    /\ qi = 1
    /\ response = NoResponse
    /\ all_raised = TRUE
    /\ lastio = "none"
    /\ titles = <<>>
    /\ all_questions = {}
    /\ questions = <<>>
    /\ all_content = <<>>
    /\ results = EmptyMap
    /\ file = ""
    /\ file_state = "absent"

company == companies[ci]

-----------------------------------------------------------------------------
(* scrape_questions.py *)

\* search_questions lines 45-73: merge the fallback list, dedupe, return
SearchQuestionsReturn(qs) ==
    /\ titles' = WithKnown(qs, known_questions, company)
    /\ questions' = ListSet(WithKnown(qs, known_questions, company), hashseed)
    /\ pc' = "t_main"

\* search_questions lines 22-43: the request and its three outcomes
T_Fetch ==
    /\ variant = "text" /\ pc = "t_fetch"
    /\ lastio' = "fetch"
    /\ \/ /\ response' = Raised
          /\ SearchQuestionsReturn(<<>>)
          /\ UNCHANGED all_raised
       \/ \E st \in StatusCodes, body \in HtmlBodies :
            /\ response' = Answer(st)
            /\ titles' = IF st = 200
                         THEN TextHarvest[body]
                         ELSE <<>>
            /\ all_raised' = FALSE
            /\ pc' = "t_sleep"
            /\ UNCHANGED questions
    /\ UNCHANGED <<variant, hashseed, ci, qi, all_questions, all_content,
                   results, file, file_state>>

\* search_questions line 40 (sleep inside the try), then lines 45-73
T_Sleep ==
    /\ variant = "text" /\ pc = "t_sleep"
    /\ lastio' = "sleep"
    /\ SearchQuestionsReturn(titles)
    /\ UNCHANGED <<variant, hashseed, ci, qi, response, all_raised, all_questions,
                   all_content, results, file, file_state>>

\* main lines 85-92: banner, numbered lines, sleep, next company
T_MainBody ==
    /\ variant = "text" /\ pc = "t_main"
    /\ all_content' = all_content \o BannerText(company) \o Numbered(questions)
    /\ lastio' = "sleep"
    /\ ci' = ci + 1
    /\ all_raised' = TRUE
    /\ titles' = <<>>
    /\ pc' = IF LoopDone(ci) THEN "t_write" ELSE "t_fetch"
    /\ UNCHANGED <<variant, hashseed, qi, response, all_questions,
                   questions, results, file, file_state>>

\* main lines 95-96: the file is written once
T_Write ==
    /\ variant = "text" /\ pc = "t_write"
    /\ file' = JoinLines(all_content)
    /\ file_state' = "closed"
    /\ pc' = "done"
    /\ UNCHANGED <<variant, hashseed, ci, qi, response, all_raised, lastio, titles,
                   all_questions, questions, all_content, results>>

-----------------------------------------------------------------------------
(* enhanced_scraper.py *)

\* main line 65: the file is opened (and truncated) before the first search
E_Open ==
    /\ variant = "enhanced" /\ pc = "e_open"
    /\ file' = ""
    /\ file_state' = "open"
    /\ pc' = "e_fetch"
    /\ UNCHANGED <<variant, hashseed, ci, qi, response, all_raised, lastio, titles,
                   all_questions, questions, all_content, results>>

\* end of one iteration of  for query in search_queries ; line 58 after the last
E_NextQuery(found) ==
    IF qi >= NumQueries
    THEN /\ questions' = Order(found, hashseed)
         /\ pc' = "e_main"
         /\ UNCHANGED qi
    ELSE /\ qi' = qi + 1
         /\ pc' = "e_fetch"
         /\ UNCHANGED questions

\* search_comprehensive lines 39-50 and 54-56
E_Fetch ==
    /\ variant = "enhanced" /\ pc = "e_fetch"
    /\ lastio' = "fetch"
    /\ \/ /\ response' = Raised
          /\ E_NextQuery(all_questions)
          /\ UNCHANGED <<all_raised, all_questions>>
       \/ \E st \in StatusCodes, body \in HtmlBodies :
            /\ response' = Answer(st)
            /\ all_questions' =
                 IF st = 200
                 THEN all_questions
                      \cup Range(EnhancedHarvest[body])
                 ELSE all_questions
            /\ all_raised' = FALSE
            /\ pc' = "e_sleep"
            /\ UNCHANGED <<qi, questions>>
    /\ UNCHANGED <<variant, hashseed, ci, titles, all_content, results,
                   file, file_state>>

\* search_comprehensive line 52
E_Sleep ==
    /\ variant = "enhanced" /\ pc = "e_sleep"
    /\ lastio' = "sleep"
    /\ E_NextQuery(all_questions)
    /\ UNCHANGED <<variant, hashseed, ci, response, all_raised, titles, all_questions,
                   all_content, results, file, file_state>>

\* main lines 70-77: the company's block is written, next company
E_MainBody ==
    /\ variant = "enhanced" /\ pc = "e_main"
    /\ file' = file \o BannerEnhanced(company)
                    \o Concat([i \in 1..Len(questions) |-> Numbered(questions)[i] \o "\n"])
    /\ ci' = ci + 1
    /\ qi' = 1
    /\ all_questions' = {}
    /\ all_raised' = TRUE
    /\ pc' = IF LoopDone(ci) THEN "e_close" ELSE "e_fetch"
    /\ UNCHANGED <<variant, hashseed, response, lastio, titles, questions,
                   all_content, results, file_state>>

\* main: end of the with block
E_Close ==
    /\ variant = "enhanced" /\ pc = "e_close"
    /\ file_state' = "closed"
    /\ pc' = "done"
    /\ UNCHANGED <<variant, hashseed, ci, qi, response, all_raised, lastio, titles,
                   all_questions, questions, all_content, results, file>>

-----------------------------------------------------------------------------
(* scrape_system_design_questions.py *)

J_MainExcept_uncaught ==
    /\ pc' = "crashed"
    /\ UNCHANGED <<ci, titles, results>>

\* main lines 197-200: an exception of scrape_company_questions is caught,
\* printed, and the loop goes on with the next company
J_MainExcept ==
    /\ ci' = ci + 1
    /\ pc' = IF LoopDone(ci) THEN "j_save" ELSE "j_sleep0"
    /\ UNCHANGED <<titles, results>>

\* scrape_company_questions line 141
J_Sleep0 ==
    /\ variant = "json" /\ pc = "j_sleep0"
    /\ lastio' = "sleep"
    /\ titles' = <<>>
    /\ all_raised' = TRUE
    /\ pc' = "j_leetcode"
    /\ UNCHANGED <<variant, hashseed, ci, qi, response, all_questions, questions,
                   all_content, results, file, file_state>>

\* lines 144-145: search_leetcode_discuss and the extend of its return value.
\* Raised exception: the handler returns [].  Status 200: the filtered titles.
\* Any other status: the function falls off its end and returns None, and
\* all_questions.extend(None) raises TypeError, caught only in main.
J_Leetcode ==
    /\ variant = "json" /\ pc = "j_leetcode"
    /\ lastio' = "fetch"
    /\ \/ /\ response' = Raised
          /\ pc' = "j_sleep1"
          /\ UNCHANGED <<titles, ci, results, all_raised>>
       \/ \E body \in TopicBodies :
            /\ response' = Answer(200)
            /\ titles' = titles \o LeetcodeHarvest[body]
            /\ all_raised' = FALSE
            /\ pc' = "j_sleep1"
            /\ UNCHANGED <<ci, results>>
       \/ \E st \in StatusCodes \ {200} :
            /\ response' = Answer(st)
            /\ all_raised' = FALSE
            /\ J_MainExcept
    /\ UNCHANGED <<variant, hashseed, qi, all_questions, questions, all_content,
                   file, file_state>>

\* line 147
J_Sleep1 ==
    /\ variant = "json" /\ pc = "j_sleep1"
    /\ lastio' = "sleep"
    /\ pc' = "j_reddit"
    /\ UNCHANGED <<variant, hashseed, ci, qi, response, all_raised, titles,
                   all_questions, questions, all_content, results, file, file_state>>

\* lines 149-150: search_glassdoor_alternative and the extend
J_Glassdoor ==
    /\ variant = "json" /\ pc = "j_reddit"
    /\ lastio' = "fetch"
    /\ \/ /\ response' = Raised
          /\ pc' = "j_sleep2"
          /\ UNCHANGED <<titles, ci, results, all_raised>>
       \/ \E body \in HtmlBodies :
            /\ response' = Answer(200)
            /\ titles' = titles \o RedditHarvest[body]
            /\ all_raised' = FALSE
            /\ pc' = "j_sleep2"
            /\ UNCHANGED <<ci, results>>
       \/ \E st \in StatusCodes \ {200} :
            /\ response' = Answer(st)
            /\ all_raised' = FALSE
            /\ J_MainExcept
    /\ UNCHANGED <<variant, hashseed, qi, all_questions, questions, all_content,
                   file, file_state>>

\* line 152
J_Sleep2 ==
    /\ variant = "json" /\ pc = "j_sleep2"
    /\ lastio' = "sleep"
    /\ pc' = "j_github"
    /\ UNCHANGED <<variant, hashseed, ci, qi, response, all_raised, titles,
                   all_questions, questions, all_content, results, file, file_state>>

\* lines 157-169: merge the fallback list, dedupe, length filter, store
J_Store(qs) ==
    /\ titles' = WithKnown(qs, common_questions, company)
    /\ results' = [c \in DOMAIN results \cup {company} |->
                     IF c = company
                     THEN Cleaned(ListSet(WithKnown(qs, common_questions, company), hashseed))
                     ELSE results[c]]
    /\ ci' = ci + 1
    /\ pc' = IF LoopDone(ci) THEN "j_save" ELSE "j_sleep0"

\* lines 154-169: search_github_repos, the extend, and the rest of
\* scrape_company_questions
J_Github ==
    /\ variant = "json" /\ pc = "j_github"
    /\ lastio' = "fetch"
    /\ \/ /\ response' = Raised
          /\ J_Store(titles)
          /\ UNCHANGED all_raised
       \/ \E body \in RepoBodies :
            /\ response' = Answer(200)
            /\ all_raised' = FALSE
            /\ J_Store(titles \o GithubHarvest[body])
       \/ \E st \in StatusCodes \ {200} :
            /\ response' = Answer(st)
            /\ all_raised' = FALSE
            /\ J_MainExcept
    /\ UNCHANGED <<variant, hashseed, qi, all_questions, questions, all_content,
                   file, file_state>>

\* main lines 202-203: print_results, then save_results writes the file once
J_Save ==
    /\ variant = "json" /\ pc = "j_save"
    /\ file' = JsonDump(results)
    /\ file_state' = "closed"
    /\ pc' = "done"
    /\ UNCHANGED <<variant, hashseed, ci, qi, response, all_raised, lastio, titles,
                   all_questions, questions, all_content, results>>

-----------------------------------------------------------------------------
(* Specifications *)

Next ==
    \/ T_Fetch
    \/ T_Sleep
    \/ T_MainBody
    \/ T_Write
    \/ E_Open
    \/ E_Fetch
    \/ E_Sleep
    \/ E_MainBody
    \/ E_Close
    \/ J_Sleep0
    \/ J_Leetcode
    \/ J_Sleep1
    \/ J_Glassdoor
    \/ J_Sleep2
    \/ J_Github
    \/ J_Save

Spec == Init /\ [][Next]_vars

\* the scripts are sequential programs: a step that can be taken is taken
FairSpec == Init /\ [][Next]_vars /\ WF_vars(Next)

TypeOK ==
    /\ variant \in Variants
    /\ hashseed \in 1..NumSeeds
    /\ ci \in 1..(NumCompanies + 1)
    /\ qi \in 1..NumQueries
    /\ lastio \in {"none", "fetch", "sleep"}
    /\ file_state \in {"absent", "open", "closed"}
    /\ all_raised \in BOOLEAN

-----------------------------------------------------------------------------
(* Vocabulary of the properties *)

FetchPcs == {"t_fetch", "e_fetch", "j_leetcode", "j_reddit", "j_github"}

HarvestPcs == {"t_sleep", "e_sleep", "j_sleep1", "j_sleep2"}

\* the company whose harvest ended last
lastCompany == companies[ci - 1]

\* the json script has just left scrape_company_questions for lastCompany
JustLeft == variant = "json" /\ pc \in {"j_sleep0", "j_save"} /\ ci > 1

\* the table of canned questions of a script (none in enhanced_scraper.py)
FallbackOf(v, c) ==
    CASE v = "text" -> known_questions[c]
      [] v = "json" -> common_questions[c]
      [] v = "enhanced" -> <<>>

KeywordsOf(v) ==
    CASE v = "text" -> KeywordsText
      [] v = "json" -> KeywordsLeetcode \cup KeywordsReddit \cup KeywordsGithub
      [] v = "enhanced" -> KeywordsEnhanced

\* the lower-cased title holds one of the keywords
MentionsKeyword(t, kws) == \E kw \in kws : Contains(Lower(t), kw)

InBounds(t) == Len(t) > 10 /\ Len(t) < 200

SameCollection(a, b) == Len(a) = Len(b) /\ Range(a) = Range(b)

\* the results a run has produced so far: <<company, list>> pairs
Produced ==
    (IF variant = "text" /\ pc = "t_main" THEN {<<company, questions>>} ELSE {})
    \cup (IF variant = "enhanced" /\ pc = "e_main" THEN {<<company, questions>>} ELSE {})
    \cup (IF variant = "json" THEN {<<c, results[c]>> : c \in DOMAIN results} ELSE {})

\* C1: after a run of a script with a fallback table, the result recorded
\* for every company holds every string of the company's fallback list
C1_FallbackSuperset ==
    /\ (variant = "text" /\ pc = "t_main")
         => Range(known_questions[company]) \subseteq Range(questions)
    /\ variant = "json"
         => \A k \in 1..(ci - 1) :
              /\ companies[k] \in DOMAIN results
              /\ Range(common_questions[companies[k]]) \subseteq Range(results[companies[k]])

\* C2: a request answered with a non-2xx status adds no title and the
\* harvest of the company goes on: either the script is still inside that
\* company's harvest with the titles it had, or the company's harvest has
\* ended with a merged result recorded
C2_NonOkYieldsNothing ==
    [][ (pc \in FetchPcs /\ ~response'.raised /\ response'.status_code \notin 200..299)
          => \/ /\ ci' = ci
                /\ pc' \in HarvestPcs
                /\ titles' = titles
                /\ all_questions' = all_questions
             \/ /\ ci' = ci + 1
                /\ company \in DOMAIN results'
                /\ Range(common_questions[company]) \subseteq Range(results'[company]) ]_vars

\* C3: when every request made for a company raised, the company's result
\* is its fallback list, no more and no fewer (empty in enhanced_scraper.py)
C3_AllRaisedGivesFallback ==
    /\ (variant \in {"text", "enhanced"} /\ pc \in {"t_main", "e_main"} /\ all_raised)
         => SameCollection(questions, FallbackOf(variant, company))
    /\ (JustLeft /\ all_raised)
         => /\ lastCompany \in DOMAIN results
            /\ SameCollection(results[lastCompany], common_questions[lastCompany])

C3_Witness ==
    /\ JustLeft /\ all_raised /\ response.raised
    /\ lastCompany \in DOMAIN results
    /\ Len(results[lastCompany]) = 5

\* the text of the output of scrape_questions.py: the file once written,
\* before that what the write would put there
OutputText == IF file_state = "closed" THEN file ELSE JoinLines(all_content)

\* scrape_questions.py has appended the block of lastCompany, whose only
\* request raised or was answered with a status other than 200
ZeroNetworkBlock ==
    /\ variant = "text" /\ pc \in {"t_fetch", "t_write", "done"} /\ ci > 1
    /\ (response.raised \/ response.status_code # 200)

BannerLines(c) ==
    << "", Rep("=", 60), Upper(c) \o " SYSTEM DESIGN QUESTIONS", Rep("=", 60) >>

\* C4 as stated: the output ends with the banner and 5 numbered lines, line
\* i carrying the i-th entry of the fallback list
C4_FallbackOrder ==
    ZeroNetworkBlock =>
        LET lines == SplitLines(OutputText)
            n     == Len(lines)
            fb    == known_questions[lastCompany]
        IN /\ n >= 9
           /\ SubSeq(lines, n - 8, n - 5) = BannerLines(lastCompany)
           /\ \A i \in 1..5 : lines[n - 5 + i] = ToString(i) \o ". " \o fb[i]

\* C4 amended: the output ends with the banner and 5 lines numbered 1..5
\* that carry the 5 fallback entries, each once, in some order
C4_FallbackPermutation ==
    ZeroNetworkBlock =>
        LET lines == SplitLines(OutputText)
            n     == Len(lines)
            fb    == known_questions[lastCompany]
        IN /\ n >= 9
           /\ SubSeq(lines, n - 8, n - 5) = BannerLines(lastCompany)
           /\ \A i \in 1..5 : \E j \in 1..5 : lines[n - 5 + i] = ToString(i) \o ". " \o fb[j]
           /\ \A j \in 1..5 : \E i \in 1..5 : lines[n - 5 + i] = ToString(i) \o ". " \o fb[j]

C4_Witness ==
    /\ ZeroNetworkBlock /\ pc = "done" /\ file_state = "closed"
    /\ lastCompany = "Mastercard"
    /\ Len(SplitLines(file)) >= 9

\* C5 as stated: every title of a result is a fallback entry or holds a
\* keyword of the script and has a length strictly between 10 and 200
C5_FilteredOrFallback ==
    \A r \in Produced : \A t \in Range(r[2]) :
        \/ t \in Range(FallbackOf(variant, r[1]))
        \/ (MentionsKeyword(t, KeywordsOf(variant)) /\ InBounds(t))

\* C5 amended: the length bounds apply in scrape_system_design_questions.py only
C5_FilteredOrFallbackAmended ==
    \A r \in Produced : \A t \in Range(r[2]) :
        \/ t \in Range(FallbackOf(variant, r[1]))
        \/ (MentionsKeyword(t, KeywordsOf(variant)) /\ (variant = "json" => InBounds(t)))

C5_Witness ==
    \E r \in Produced :
        /\ "Design" \in Range(r[2])
        /\ "Atlassian System Design Interview" \in Range(r[2])

\* C6: every title stored in results has a length strictly between 10 and 200
C6_LengthBounds ==
    \A c \in DOMAIN results : \A t \in Range(results[c]) : Len(t) > 10 /\ Len(t) < 200

C6_Witness ==
    \E c \in DOMAIN results :
        /\ \E t \in Range(results[c]) : Len(t) = 199
        /\ \E t \in Range(results[c]) : Len(t) = 11
        /\ \E t \in Range(titles) : Len(t) = 200
        /\ \E t \in Range(titles) : Len(t) = 10

\* C7: no result holds the same string twice
C7_NoDuplicates == \A r \in Produced : NoDup(r[2])

C7_Witness ==
    /\ variant = "text" /\ pc = "t_main" /\ company = "PayPal"
    /\ \E i, j \in 1..Len(titles) :
         i < j /\ j <= 3 /\ titles[i] = titles[j] /\ titles[i] \in Range(known_questions[company])
    /\ Len(questions) = 6

\* C8: whatever the requests return, the run walks through the companies
\* one by one and reaches the end with the output file written
C8_RunCompletes ==
    /\ <>(pc = "done" /\ ci = NumCompanies + 1 /\ file_state = "closed")
    /\ [][ci' = ci \/ ci' = ci + 1]_vars

C8_Witness ==
    /\ variant = "json" /\ pc = "done"
    /\ "Atlassian" \notin DOMAIN results
    /\ "PayPal" \in DOMAIN results

\* the banner line of enhanced_scraper.py for a company is in the file
BlockWritten(c) ==
    \E i \in 1..(Len(file) - Len(c) - 29) :
        SubSeq(file, i, i + Len(c) + 29) = Upper(c) \o " - ADDITIONAL QUESTIONS FOUND\n"

\* C9 as stated: while a harvest is still to be done the output file is
\* neither opened nor written
C9_NothingWrittenBeforeLastHarvest ==
    file_state # "absent" => (ci = NumCompanies + 1 /\ pc \notin FetchPcs)

\* C9 amended: scrape_questions.py and scrape_system_design_questions.py
\* open and write the file once, after the last harvest; enhanced_scraper.py
\* opens it before the first request and holds the block of a company as
\* soon as, and not before, that company's harvest has ended
C9_WriteAfterHarvest ==
    /\ variant \in {"text", "json"}
         => /\ file_state # "absent" => (pc = "done" /\ ci = NumCompanies + 1)
            /\ file_state = "absent" => file = ""
    /\ variant = "enhanced"
         => /\ pc \in FetchPcs => file_state = "open"
            /\ \A k \in 1..NumCompanies : BlockWritten(companies[k]) <=> k < ci
            /\ file_state = "closed" => (pc = "done" /\ ci = NumCompanies + 1)

C9_Witness ==
    /\ variant = "enhanced" /\ pc = "e_fetch" /\ ci = 2
    /\ BlockWritten("Atlassian") /\ ~BlockWritten("PayPal")

\* C10: a request is never issued right after another request, without a
\* sleep between the two
C10_SleepBetweenRequests == pc \in FetchPcs => lastio # "fetch"

====
